---- MODULE Spec2Model ----
(***************************************************************************)
(* akita_fastapi.testclient: the HAR entry builder requests_to_har_entry   *)
(* and the recording TestClient (request, __exit__).                       *)
(*                                                                         *)
(* Text is a sequence of Unicode code points, a byte string a sequence of  *)
(* numbers 0..255.  An optional value (None in the source) is a sequence   *)
(* of length 0 or 1.                                                       *)
(***************************************************************************)
EXTENDS Integers, Sequences, FiniteSets, TLC

VARIABLES
  har_writer,   \* self.har_writer: [closed, entries], the HarWriter of __init__
  exitCalls,    \* number of __exit__ calls
  exiting,      \* how many of them are inside the inherited __exit__ (line 168)
  closeCalls,   \* number of har_writer.close() invocations
  clientCalls,  \* number of super().request(...) invocations
  pending,      \* the request() calls inside their delegated call, in the
                \* order they began
  overlapped,   \* whether a request() call began while another was in flight
  history,      \* one record per ended TestClient.request call, in that order
  recordIter,   \* what unpacking a har.Record yields in this build
  args,         \* arguments of a direct requests_to_har_entry call
  built         \* result of that call (empty before it)

vars == <<har_writer, exitCalls, exiting, closeCalls, clientCalls, pending, overlapped,
          history, recordIter, args, built>>

(***************************************************************************)
(* Bounds of the model.                                                    *)
(***************************************************************************)
MaxCalls == 2
MaxExits == 2
MaxFields == 3
MaxBody == 3
MaxHeaders == 2

(***************************************************************************)
(* str / bytes primitives used by the source.                              *)
(***************************************************************************)
RECURSIVE Find(_, _, _)
\* s.find(c) from 1-based position i; 0 when absent
Find(s, c, i) ==
  IF i > Len(s) THEN 0
  ELSE IF s[i] = c THEN i
  ELSE Find(s, c, i + 1)

RECURSIVE Split(_, _)
\* s.split(c)
Split(s, c) ==
  LET i == Find(s, c, 1)
  IN IF i = 0 THEN <<s>>
     ELSE <<SubSeq(s, 1, i - 1)>> \o Split(SubSeq(s, i + 1, Len(s)), c)

RECURSIVE Join(_, _)
\* sep.join(parts)
Join(parts, sep) ==
  IF Len(parts) = 0 THEN <<>>
  ELSE IF Len(parts) = 1 THEN parts[1]
  ELSE parts[1] \o sep \o Join(Tail(parts), sep)

IsAsciiAlpha(c) == (c >= 65 /\ c <= 90) \/ (c >= 97 /\ c <= 122)
IsDigit(c) == c >= 48 /\ c <= 57
\* urllib.parse.scheme_chars: letters, digits, "+-."
IsSchemeChar(c) == IsAsciiAlpha(c) \/ IsDigit(c) \/ c \in {43, 45, 46}
LowerChar(c) == IF c >= 65 /\ c <= 90 THEN c + 32 ELSE c
UpperChar(c) == IF c >= 97 /\ c <= 122 THEN c - 32 ELSE c
lower(s) == [i \in 1..Len(s) |-> LowerChar(s[i])]
upper(s) == [i \in 1..Len(s) |-> UpperChar(s[i])]
\* s.replace('+', ' ')
PlusToSpace(s) == [i \in 1..Len(s) |-> IF s[i] = 43 THEN 32 ELSE s[i]]

\* the UTF-8 encoding of one code point
Utf8Bytes(cp) ==
  IF cp < 128 THEN <<cp>>
  ELSE IF cp < 2048 THEN <<192 + (cp \div 64), 128 + (cp % 64)>>
  ELSE IF cp < 65536
    THEN <<224 + (cp \div 4096), 128 + ((cp \div 64) % 64), 128 + (cp % 64)>>
  ELSE <<240 + (cp \div 262144), 128 + ((cp \div 4096) % 64),
         128 + ((cp \div 64) % 64), 128 + (cp % 64)>>

RECURSIVE encode_utf8(_)
\* text.encode("utf-8"): the bytes of each code point in turn, computed by
\* halves
encode_utf8(text) ==
  IF Len(text) = 0 THEN <<>>
  ELSE IF Len(text) = 1 THEN Utf8Bytes(text[1])
  ELSE encode_utf8(SubSeq(text, 1, Len(text) \div 2))
       \o encode_utf8(SubSeq(text, Len(text) \div 2 + 1, Len(text)))

(***************************************************************************)
(* bytes.decode("utf-7"): CPython's strict UTF-7 decoder.  A '+' opens a   *)
(* base-64 section of UTF-16 code units, "+-" is a literal '+', a byte     *)
(* above 127 is an error, every other byte decodes as itself.              *)
(***************************************************************************)
IsBase64(c) == IsAsciiAlpha(c) \/ IsDigit(c) \/ c = 43 \/ c = 47
FromBase64(c) ==
  IF c >= 65 /\ c <= 90 THEN c - 65
  ELSE IF c >= 97 /\ c <= 122 THEN c - 71
  ELSE IF IsDigit(c) THEN c + 4
  ELSE IF c = 43 THEN 62
  ELSE 63
DecodeDirect(c) == c <= 127 /\ c # 43
IsHighSurrogate(u) == u >= 55296 /\ u <= 56319
IsLowSurrogate(u) == u >= 56320 /\ u <= 57343
JoinSurrogates(hi, lo) == 65536 + ((hi % 1024) * 1024) + (lo % 1024)

RECURSIVE Utf7Loop(_, _, _, _, _, _, _)
\* st: i position, inShift, buf/nbits the base-64 buffer, sur the pending
\* high surrogate (0: none), out the text written so far
Utf7Loop(s, i, inShift, buf, nbits, sur, out) ==
  IF i > Len(s)
  THEN IF inShift /\ (sur # 0 \/ nbits >= 6 \/ (nbits > 0 /\ buf # 0))
       THEN [ok |-> FALSE, text |-> <<>>]
       ELSE [ok |-> TRUE, text |-> out]
  ELSE
    LET ch == s[i] IN
    IF inShift
    THEN IF IsBase64(ch)
         THEN LET b2 == buf * 64 + FromBase64(ch)
                  n2 == nbits + 6
              IN IF n2 >= 16
                 THEN LET outCh == b2 \div (2 ^ (n2 - 16))
                          n3 == n2 - 16
                          b3 == b2 % (2 ^ n3)
                      IN IF sur # 0 /\ IsLowSurrogate(outCh)
                         THEN Utf7Loop(s, i + 1, TRUE, b3, n3, 0,
                                       Append(out, JoinSurrogates(sur, outCh)))
                         ELSE LET o2 == IF sur # 0 THEN Append(out, sur) ELSE out
                              IN IF IsHighSurrogate(outCh)
                                 THEN Utf7Loop(s, i + 1, TRUE, b3, n3, outCh, o2)
                                 ELSE Utf7Loop(s, i + 1, TRUE, b3, n3, 0,
                                               Append(o2, outCh))
                 ELSE Utf7Loop(s, i + 1, TRUE, b2, n2, sur, out)
         ELSE \* leaving the base-64 section
              IF nbits >= 6 \/ (nbits > 0 /\ buf # 0)
              THEN [ok |-> FALSE, text |-> <<>>]
              ELSE LET o2 == IF sur # 0 /\ DecodeDirect(ch)
                             THEN Append(out, sur) ELSE out
                   IN Utf7Loop(s, IF ch = 45 THEN i + 1 ELSE i,
                               FALSE, buf, nbits, 0, o2)
    ELSE IF ch = 43
         THEN IF i + 1 <= Len(s) /\ s[i + 1] = 45
              THEN Utf7Loop(s, i + 2, FALSE, buf, nbits, sur, Append(out, 43))
              ELSE IF i + 1 <= Len(s) /\ ~IsBase64(s[i + 1])
              THEN [ok |-> FALSE, text |-> <<>>]
              ELSE Utf7Loop(s, i + 1, TRUE, 0, 0, 0, out)
         ELSE IF DecodeDirect(ch)
         THEN Utf7Loop(s, i + 1, FALSE, buf, nbits, sur, Append(out, ch))
         ELSE [ok |-> FALSE, text |-> <<>>]

\* body.decode("utf-7"): ok = FALSE stands for UnicodeDecodeError
decode_utf7(s) == Utf7Loop(s, 1, FALSE, 0, 0, 0, <<>>)

(***************************************************************************)
(* urllib.parse, as far as the builder uses it.  unquote() is the identity *)
(* on the URL alphabet of this model, which has no '%'.                    *)
(***************************************************************************)
\* first position >= i of '/', '?' or '#'; Len(s) + 1 when there is none
RECURSIVE NetlocEnd(_, _)
NetlocEnd(s, i) ==
  IF i > Len(s) THEN i
  ELSE IF s[i] \in {47, 63, 35} THEN i
  ELSE NetlocEnd(s, i + 1)

\* u.split(c, 1) at position i of c (0: c is absent): <<before, after>>
SplitAt(u, i) ==
  IF i > 0 THEN <<SubSeq(u, 1, i - 1), SubSeq(u, i + 1, Len(u))>> ELSE <<u, <<>>>>

\* urlsplit: `if '?' in url: url, query = url.split('?', 1)`
SplitQuery(scheme, netloc, pq, fragment) ==
  [scheme |-> scheme, netloc |-> netloc, path |-> pq[1], query |-> pq[2],
   fragment |-> fragment]

\* urlsplit: `if '#' in url: url, fragment = url.split('#', 1)`
SplitFragment(scheme, netloc, uf) ==
  SplitQuery(scheme, netloc, SplitAt(uf[1], Find(uf[1], 63, 1)), uf[2])

\* urlsplit: `if url[:2] == '//': netloc, url = _splitnetloc(url, 2)`
SplitNetloc(scheme, u, delim) ==
  IF Len(u) >= 2 /\ u[1] = 47 /\ u[2] = 47
  THEN SplitFragment(scheme, SubSeq(u, 3, delim - 1),
                     SplitAt(SubSeq(u, delim, Len(u)),
                             Find(SubSeq(u, delim, Len(u)), 35, 1)))
  ELSE SplitFragment(scheme, <<>>, SplitAt(u, Find(u, 35, 1)))

\* urlsplit: the scheme is url[:i] when i, the position of the first ':',
\* follows a letter and scheme characters only
SplitScheme(url, i) ==
  IF /\ i > 1
     /\ IsAsciiAlpha(url[1])
     /\ \A j \in 1..(i - 1) : IsSchemeChar(url[j])
  THEN SplitNetloc(lower(SubSeq(url, 1, i - 1)), SubSeq(url, i + 1, Len(url)),
                   NetlocEnd(SubSeq(url, i + 1, Len(url)), 3))
  ELSE SplitNetloc(<<>>, url, NetlocEnd(url, 3))

\* parse.urlsplit(url): scheme, netloc, path, query, fragment
urlsplit(url) == SplitScheme(url, Find(url, 58, 1))

\* urlunsplit: `if query: ...`, `if fragment: ...`
WithQueryFragment(u, query, fragment) ==
  (IF Len(query) > 0 THEN u \o <<63>> \o query ELSE u)
  \o (IF Len(fragment) > 0 THEN <<35>> \o fragment ELSE <<>>)

\* parse.urlunsplit((scheme, netloc, path, query, fragment)); every scheme
\* of this model ("http") is in uses_netloc
urlunsplit(scheme, netloc, path, query, fragment) ==
  WithQueryFragment(
    (IF Len(scheme) > 0 THEN scheme \o <<58>> ELSE <<>>)
    \o (IF Len(netloc) > 0
           \/ (Len(scheme) > 0 /\ ~(Len(path) >= 2 /\ path[1] = 47 /\ path[2] = 47))
        THEN <<47, 47>> \o netloc
             \o (IF Len(path) > 0 /\ path[1] # 47 THEN <<47>> ELSE <<>>)
             \o path
        ELSE path),
    query, fragment)

\* parse.urlunparse((scheme, netloc, path, params, query, fragment))
urlunparse(scheme, netloc, path, params, query, fragment) ==
  urlunsplit(scheme, netloc,
             IF Len(params) > 0 THEN path \o <<59>> \o params ELSE path,
             query, fragment)

RECURSIVE QslFields(_)
\* the loop of parse.parse_qsl over qs.split('&'), keep_blank_values=False
QslFields(fields) ==
  IF Len(fields) = 0 THEN <<>>
  ELSE LET nv == Head(fields)
           e == Find(nv, 61, 1)
           rest == QslFields(Tail(fields))
       IN IF Len(nv) = 0 THEN rest
          ELSE IF e = 0 THEN rest
          ELSE IF e = Len(nv) THEN rest
          ELSE <<<<PlusToSpace(SubSeq(nv, 1, e - 1)),
                   PlusToSpace(SubSeq(nv, e + 1, Len(nv)))>>>> \o rest

\* parse.parse_qsl(qs)
parse_qsl(qs) == IF Len(qs) = 0 THEN <<>> ELSE QslFields(Split(qs, 38))

\* a mutant of DictAppend: parsed_result[name] = [value] for a key seen before
DictOverwrite(d, name, value) ==
  IF \E i \in 1..Len(d) : d[i][1] = name
  THEN [i \in 1..Len(d) |-> IF d[i][1] = name THEN <<name, <<value>>>> ELSE d[i]]
  ELSE Append(d, <<name, <<value>>>>)

\* parsed_result[name].append(value), or a new key at the end of the dict
DictAppend(d, name, value) ==
  IF \E i \in 1..Len(d) : d[i][1] = name
  THEN [i \in 1..Len(d) |->
          IF d[i][1] = name THEN <<name, Append(d[i][2], value)>> ELSE d[i]]
  ELSE Append(d, <<name, <<value>>>>)

RECURSIVE QsGroup(_, _)
QsGroup(pairs, d) ==
  IF Len(pairs) = 0 THEN d
  ELSE QsGroup(Tail(pairs), DictAppend(d, Head(pairs)[1], Head(pairs)[2]))

\* parse.parse_qs(qs): a dict, here the sequence of its items() in
\* insertion order, each <<name, values>>
parse_qs(qs) == QsGroup(parse_qsl(qs), <<>>)

\* urljoin: the base's scheme and netloc, the target's path, query, fragment
JoinParts(b, u) == urlunparse(b.scheme, b.netloc, u.path, <<>>, u.query, u.fragment)

\* parse.urljoin(base, url) for a base without path and a target that is
\* an absolute path without dot segments (the targets of this model)
urljoin(base, url) ==
  IF Len(url) = 0 THEN base ELSE JoinParts(urlsplit(base), urlsplit(url))

(***************************************************************************)
(* requests_to_har_entry.  A request is a requests.Request: method, url,   *)
(* headers (the items of a dict, keys distinct), data (nothing, bytes or   *)
(* an already encoded str) and cookies (the items of a dict); params,      *)
(* files, json, auth and hooks are not used by the requests of this model. *)
(* A response is status_code, reason, headers, text, cookies and url.      *)
(***************************************************************************)
ServerProtocol == <<72, 84, 84, 80, 47, 49, 46, 49>>                 \* 'HTTP/1.1'
ContentTypeKey == <<67, 111, 110, 116, 101, 110, 116, 45, 84, 121, 112, 101>>
ContentLengthKey ==
  <<67, 111, 110, 116, 101, 110, 116, 45, 76, 101, 110, 103, 116, 104>>
CookieKey == <<67, 111, 111, 107, 105, 101>>
Get == <<71, 69, 84>>
Post == <<80, 79, 83, 84>>
HeadMethod == <<72, 69, 65, 68>>                                     \* 'HEAD'

\* har.Record(name=k, value=v)
Record(k, v) == [name |-> k, value |-> v]

\* [har.Record(name=k, value=v) for k, v in items]
Records(items) == [i \in 1..Len(items) |-> Record(items[i][1], items[i][2])]

RECURSIVE Flatten(_)
\* [Record(k, v) for k, vs in d.items() for v in vs]
Flatten(d) ==
  IF Len(d) = 0 THEN <<>>
  ELSE [i \in 1..Len(Head(d)[2]) |-> Record(Head(d)[1], Head(d)[2][i])]
       \o Flatten(Tail(d))

\* repr() of a str without quotes, backslashes or unprintable characters
ReprStr(text) == <<39>> \o text \o <<39>>

\* `for k, v in request_headers` (line 49) unpacks a har.Record, a class of
\* akita_har whose iteration the source does not decide:
\*   "pair"    the Record unpacks to (name, value);
\*   "fields"  the Record iterates as a pydantic model does, over its
\*             (field, value) tuples: k = ('name', <name>) and
\*             v = ('value', <value>), each formatted by str();
\*   "raise"   the Record does not unpack to two values (it is not iterable,
\*             or has a third field): the unpacking raises, see BuildRaises.
UnpackRecord(rec, iter) ==
  IF iter = "pair" THEN <<rec.name, rec.value>>
  ELSE <<<<40, 39, 110, 97, 109, 101, 39, 44, 32>> \o ReprStr(rec.name) \o <<41>>,
         <<40, 39, 118, 97, 108, 117, 101, 39, 44, 32>> \o ReprStr(rec.value) \o <<41>>>>

\* f'{k}: {v}'
HeaderLine(k, v) == k \o <<58, 32>> \o v

\* line 49: '\n'.join([f'{k}: {v}' for k, v in request_headers]).encode("utf-8")
encoded_headers(request_headers, iter) ==
  encode_utf8(Join([i \in 1..Len(request_headers) |->
                      LET kv == UnpackRecord(request_headers[i], iter)
                      IN HeaderLine(kv[1], kv[2])], <<10>>))

\* line 74: the same over response.headers.items()
encoded_response_headers(items) ==
  encode_utf8(Join([i \in 1..Len(items) |-> HeaderLine(items[i][1], items[i][2])],
                   <<10>>))

\* key in headers, headers[key]: requests' CaseInsensitiveDict
HasHeader(items, key) == \E i \in 1..Len(items) : lower(items[i][1]) = lower(key)
GetHeader(items, key) ==
  items[CHOOSE i \in 1..Len(items) : lower(items[i][1]) = lower(key)][2]
\* headers[key] = value: the item of that key, whatever its case, is
\* replaced where it stands; a new key goes to the end
SetHeader(items, key, value) ==
  IF HasHeader(items, key)
  THEN [i \in 1..Len(items) |->
          IF lower(items[i][1]) = lower(key) THEN <<key, value>> ELSE items[i]]
  ELSE Append(items, <<key, value>>)

(***************************************************************************)
(* request.prepare() (line 43), as requests does it for the requests of    *)
(* this model: prepare_method, prepare_url, prepare_headers,               *)
(* prepare_cookies, prepare_body in this order.                            *)
(***************************************************************************)
RECURSIVE Str(_)
\* str(n) of an integer n >= 0
Str(n) == IF n < 10 THEN <<48 + n>> ELSE Str(n \div 10) \o <<48 + (n % 10)>>

\* prepare_url once the url is split: an empty path becomes '/', an empty
\* query or fragment is dropped; the urls of this model hold no character
\* that is percent-quoted
PreparedUrl(u) ==
  urlunparse(u.scheme, u.netloc, IF Len(u.path) = 0 THEN <<47>> ELSE u.path,
             <<>>, u.query, u.fragment)
prepare_url(url) == PreparedUrl(urlsplit(url))

\* get_cookie_header: 'name=value' of each cookie joined by '; '
CookieHeader(cookies) ==
  Join([i \in 1..Len(cookies) |-> cookies[i][1] \o <<61>> \o cookies[i][2]],
       <<59, 32>>)

\* prepare_cookies: the Cookie header of the jar, unless there is no
\* cookie or the request brings a Cookie header of its own
prepare_cookies(headers, cookies) ==
  IF Len(cookies) = 0 \/ HasHeader(headers, CookieKey) THEN headers
  ELSE SetHeader(headers, CookieKey, CookieHeader(cookies))

\* prepare_body for bytes or str data: `if data:` keeps it as the body,
\* empty data gives no body
PreparedBodyKind(request) == IF Len(request.data) = 0 THEN "none" ELSE request.dataKind

\* prepare_content_length: Content-Length of a body; '0' for a request
\* without body whose method is not GET or HEAD and that sets none
prepare_content_length(headers, method, bodyKind, body) ==
  IF bodyKind # "none" THEN SetHeader(headers, ContentLengthKey, Str(Len(body)))
  ELSE IF method \notin {Get, HeadMethod} /\ ~HasHeader(headers, ContentLengthKey)
  THEN SetHeader(headers, ContentLengthKey, <<48>>)
  ELSE headers

\* request.prepare(): the PreparedRequest
prepare(request) ==
  [method |-> upper(request.method),
   url |-> prepare_url(request.url),
   headers |-> prepare_content_length(
                 prepare_cookies(request.headers, request.cookies),
                 upper(request.method), PreparedBodyKind(request), request.data),
   bodyKind |-> PreparedBodyKind(request),
   body |-> request.data,
   cookies |-> request.cookies]

\* bytes.decode("utf-7") as the builder uses it: d is the decoder's result
Decoded(d) ==
  IF d.ok THEN [raised |-> "None", body |-> <<d.text>>]
  ELSE [raised |-> "UnicodeDecodeError", body |-> <<>>]

\* line 50: body = None if prepared.body is None else prepared.body.decode("utf-7")
\* raised: "None", "AttributeError" (a str has no decode) or "UnicodeDecodeError"
DecodeBody(prepared) ==
  IF prepared.bodyKind = "none" THEN [raised |-> "None", body |-> <<>>]
  ELSE IF prepared.bodyKind = "str" THEN [raised |-> "AttributeError", body |-> <<>>]
  ELSE Decoded(decode_utf7(prepared.body))

\* a mutant of HarRequestOf: the query and the fragment stay in the url
HarRequestKeepsQuery(prepared, url, body, iter) ==
  [method |-> prepared.method,
   url |-> prepared.url,
   httpVersion |-> ServerProtocol,
   cookies |-> Records(prepared.cookies),
   headers |-> Records(prepared.headers),
   queryString |-> Flatten(parse_qs(url.query)),
   postData |-> IF Len(body) = 0 \/ Len(body[1]) = 0 THEN <<>>
                ELSE <<[mimeType |-> GetHeader(prepared.headers, ContentTypeKey),
                        text |-> body[1]]>>,
   headersSize |-> Len(encoded_headers(Records(prepared.headers), iter)),
   bodySize |-> IF Len(body) = 0 THEN 0 ELSE Len(body[1])]

\* lines 59-69: har.Request(...) from the split url and the optional body
HarRequestOf(prepared, url, body, iter) ==
  [method |-> prepared.method,
   url |-> urlunparse(url.scheme, url.netloc, url.path, <<>>, <<>>, <<>>),
   httpVersion |-> ServerProtocol,
   cookies |-> Records(prepared.cookies),
   headers |-> Records(prepared.headers),
   queryString |-> Flatten(parse_qs(url.query)),
   postData |-> IF Len(body) = 0 \/ Len(body[1]) = 0 THEN <<>>
                ELSE <<[mimeType |-> GetHeader(prepared.headers, ContentTypeKey),
                        text |-> body[1]]>>,
   headersSize |-> Len(encoded_headers(Records(prepared.headers), iter)),
   bodySize |-> IF Len(body) = 0 THEN 0 ELSE Len(body[1])]

\* lines 45-69: the har.Request; body is the optional decoded body
HarRequest(prepared, body, iter) ==
  HarRequestOf(prepared, urlsplit(prepared.url), body, iter)

\* lines 72-85: the har.Response
HarResponse(response) ==
  [status |-> response.status_code,
   statusText |-> response.reason,
   httpVersion |-> ServerProtocol,
   cookies |-> Records(response.cookies),
   headers |-> Records(response.headers),
   content |-> [size |-> Len(response.text),
                mimeType |-> IF HasHeader(response.headers, ContentTypeKey)
                             THEN GetHeader(response.headers, ContentTypeKey)
                             ELSE <<>>,
                text |-> response.text],
   redirectURL |-> response.url,
   headersSize |-> Len(encoded_response_headers(response.headers)),
   bodySize |-> Len(response.text)]

\* a mutant of BuildRaises: the timezone check of lines 37-38 is missing
BuildRaisesNoTzCheck(start, prepared, d, iter) ==
  IF iter = "raise" /\ Len(prepared.headers) > 0 THEN "UnpackError"
  ELSE IF d.raised # "None" THEN d.raised
  ELSE IF Len(d.body) > 0 /\ Len(d.body[1]) > 0
          /\ ~HasHeader(prepared.headers, ContentTypeKey)
  THEN "KeyError"
  ELSE "None"

\* The failure the builder stops with, in the order of its statements:
\* the timezone check (line 37), the unpacking of a header Record (line
\* 49), body.decode (line 50, d its result), the Content-Type lookup for
\* postData (line 66).  "None": it returns an entry.
BuildRaises(start, prepared, d, iter) ==
  IF ~start.aware THEN "ValueError"
  ELSE IF iter = "raise" /\ Len(prepared.headers) > 0 THEN "UnpackError"
  ELSE IF d.raised # "None" THEN d.raised
  ELSE IF Len(d.body) > 0 /\ Len(d.body[1]) > 0
          /\ ~HasHeader(prepared.headers, ContentTypeKey)
  THEN "KeyError"
  ELSE "None"

\* lines 91-98: har.Entry(...)
HarEntry(start, elapsed_time, har_request, har_response) ==
  [startedDateTime |-> start,
   time |-> elapsed_time,
   request |-> har_request,
   response |-> har_response,
   cache |-> <<>>,
   timings |-> [send |-> 0, wait |-> elapsed_time, receive |-> 0]]

\* the builder's result once raised and the decoded body d are known;
\* prepared is what request.prepare() (line 43) gave, empty when the
\* builder stopped before it
BuildResult(start, prepared, response, now, iter, d, raised) ==
  [raised |-> raised,
   prepared |-> IF raised = "ValueError" THEN <<>> ELSE <<prepared>>,
   entry |-> IF raised # "None" THEN <<>>
             ELSE <<HarEntry(start, now - start.t,
                             HarRequest(prepared, d.body, iter),
                             HarResponse(response))>>]

BuildWithBody(start, prepared, response, now, iter, d) ==
  BuildResult(start, prepared, response, now, iter, d,
              BuildRaises(start, prepared, d, iter))

\* lines 43-98 on the prepared request
BuildPrepared(start, prepared, response, now, iter) ==
  BuildWithBody(start, prepared, response, now, iter, DecodeBody(prepared))

\* requests_to_har_entry(start, request, response); now is the clock read
\* at line 89, iter the har.Record protocol of the build
requests_to_har_entry(start, request, response, now, iter) ==
  BuildPrepared(start, prepare(request), response, now, iter)

(***************************************************************************)
(* The inputs of the model.                                                *)
(***************************************************************************)
\* the sequences over S of length lo..hi
SeqsOf(S, lo, hi) == UNION {[1..k -> S] : k \in lo..hi}

BaseUrl == <<104, 116, 116, 112, 58, 47, 47, 116, 101, 115, 116, 115, 101, 114, 118, 101, 114>>
TextPlain == <<116, 101, 120, 116, 47, 112, 108, 97, 105, 110>>
AppJson == <<97, 112, 112, 108, 105, 99, 97, 116, 105, 111, 110, 47, 106, 115, 111, 110>>
OkJson == <<123, 34, 111, 107, 34, 58, 116, 114, 117, 101, 125>>      \* '{"ok":true}'
ItemsTarget == <<47, 105, 116, 101, 109, 115, 63, 120, 61, 49>>       \* '/items?x=1'

\* raw query fields: a=1 a=2 b=3 b= a a+=1
QueryFields == {<<97, 61, 49>>, <<97, 61, 50>>, <<98, 61, 51>>, <<98, 61>>,
                <<97>>, <<97, 43, 61, 49>>}
Queries == {Join(fs, <<38>>) : fs \in SeqsOf(QueryFields, 0, MaxFields)}
\* no fragment, '#f', '#f?a=1'
Fragments == {<<>>, <<35, 102>>, <<35, 102, 63, 97, 61, 49>>}
\* http://testserver and http://testserver/p, with '?' and a query, with a
\* fragment
Urls == {BaseUrl \o p \o f : p \in {<<>>, <<47, 112>>}, f \in Fragments}
        \cup {BaseUrl \o <<47, 112, 63>> \o q \o f : q \in Queries, f \in Fragments}

\* Host: x, X-É: é, content-type: text/plain
HeaderPool == {<<<<72, 111, 115, 116>>, <<120>>>>,
               <<<<88, 45, 201>>, <<233>>>>,
               <<<<99, 111, 110, 116, 101, 110, 116, 45, 116, 121, 112, 101>>, TextPlain>>}
HeaderLists == {h \in SeqsOf(HeaderPool, 0, MaxHeaders) :
                  \A i, j \in 1..Len(h) : i # j => h[i] # h[j]}

\* data texts over 'A', '+', '-', '{', 'é', the empty one too; bytes data
\* is their UTF-8 encoding, str data is ASCII
BodyChars == {65, 43, 45, 123, 233}
BodyTexts == SeqsOf(BodyChars, 0, MaxBody)
StrTexts == {t \in BodyTexts : \A i \in 1..Len(t) : t[i] < 128}
SessionCookie == <<<<115>>, <<49>>>>                                 \* s=1

DefaultRequest ==
  [method |-> Get, url |-> BaseUrl \o <<47, 112>>, headers |-> <<>>,
   dataKind |-> "none", data |-> <<>>, cookies |-> <<>>]
JsonResponse ==
  [status_code |-> 200, reason |-> <<79, 75>>,
   headers |-> <<<<ContentTypeKey, AppJson>>>>, text |-> OkJson,
   cookies |-> <<>>, url |-> BaseUrl \o <<47, 112>>]
EmptyResponse ==
  [status_code |-> 404, reason |-> <<>>, headers |-> <<>>, text |-> <<>>,
   cookies |-> <<SessionCookie>>, url |-> BaseUrl \o <<47, 112>>]

UrlRequests == {[DefaultRequest EXCEPT !.url = u] : u \in Urls}
HeaderRequests ==
  {[DefaultRequest EXCEPT !.headers = h, !.method = m] :
     h \in HeaderLists, m \in {Get, Post}}
BytesRequests ==
  {[DefaultRequest EXCEPT !.method = m, !.dataKind = "bytes",
                          !.data = encode_utf8(t), !.headers = h,
                          !.cookies = c] :
     m \in {Get, Post}, t \in BodyTexts,
     h \in {<<>>, <<<<ContentTypeKey, TextPlain>>>>},
     c \in {<<>>, <<SessionCookie>>}}
StrRequests ==
  {[DefaultRequest EXCEPT !.method = Post, !.dataKind = "str", !.data = t,
                          !.headers = h] :
     t \in StrTexts, h \in {<<>>, <<<<ContentTypeKey, TextPlain>>>>}}
BodyRequests == BytesRequests \cup StrRequests
Responses == {JsonResponse, EmptyResponse}
               \cup {[EmptyResponse EXCEPT !.headers = h, !.text = <<233, 33>>] :
                       h \in HeaderLists}

BuildInputs ==
  {[start |-> [aware |-> a, t |-> 1], request |-> r, response |-> JsonResponse,
    now |-> 2] : a \in BOOLEAN, r \in UrlRequests \cup HeaderRequests \cup BodyRequests}
  \cup {[start |-> [aware |-> a, t |-> 1], request |-> DefaultRequest,
         response |-> p, now |-> n] : a \in BOOLEAN, p \in Responses, n \in 0..1}

(***************************************************************************)
(* TestClient.  A call is the arguments of request() together with the     *)
(* response the application under test gives to it.                        *)
(***************************************************************************)
\* execute("GET", "/items?x=1") against 200, Content-Type: application/json,
\* body {"ok":true}
ItemsCall ==
  [method |-> Get, url |-> ItemsTarget, headers |-> <<>>, dataKind |-> "none",
   data |-> <<>>, cookies |-> <<>>,
   response |-> [JsonResponse EXCEPT !.url = BaseUrl \o ItemsTarget]]
\* request("post", "/p?b=1&a=2&b=3#f", data=b"A", headers={"Content-Type": ...})
PostCall ==
  [method |-> <<112, 111, 115, 116>>,
   url |-> <<47, 112, 63, 98, 61, 49, 38, 97, 61, 50, 38, 98, 61, 51, 35, 102>>,
   headers |-> <<<<ContentTypeKey, TextPlain>>>>, dataKind |-> "bytes",
   data |-> <<65>>, cookies |-> <<>>, response |-> EmptyResponse]
Calls == {ItemsCall, PostCall}

\* lines 131-143: the requests.Request the entry is built from
MakeRequest(call) ==
  [method |-> upper(call.method), url |-> urljoin(BaseUrl, call.url),
   headers |-> call.headers, dataKind |-> call.dataKind, data |-> call.data,
   cookies |-> call.cookies]

\* HarWriter.write_entry(entry): appends; fails with WriteError on an I/O
\* failure (io) and with SinkClosed once closed, leaving the entries alone
write_entry(w, entry, io) ==
  IF w.closed THEN [raised |-> "SinkClosed", har_writer |-> w]
  ELSE IF io = "WriteError" THEN [raised |-> "WriteError", har_writer |-> w]
  ELSE [raised |-> "None",
        har_writer |-> [w EXCEPT !.entries = Append(@, entry)]]

\* HarWriter.close(): closes the writer ("ok") or fails with WriteError
\* when finalization fails, and then the file is closed ("WriteError") or
\* not ("WriteErrorOpen"); a closed writer stays closed, and the entries
\* are never touched
close(w, io) ==
  IF io = "ok" THEN [raised |-> "None", har_writer |-> [w EXCEPT !.closed = TRUE]]
  ELSE [raised |-> "WriteError",
        har_writer |-> [w EXCEPT !.closed = @ \/ io = "WriteError"]]

\* lines 131-144: the call in flight once request() has built its Request
\* (MakeRequest(call)) and read the clock (now); closedAtCall tells
\* whether the writer was closed when request() was invoked
BeginRequest(w, now, call) ==
  [closedAtCall |-> w.closed, call |-> call, start |-> [aware |-> TRUE, t |-> now]]

\* super().request(...), lines 145-162: the delegated call raises or
\* returns the response
super_request(call, client) ==
  IF client = "raise" THEN [raised |-> "ClientError", response |-> <<>>]
  ELSE [raised |-> "None", response |-> <<call.response>>]

\* what a call in flight p has done when it ends: the outcome of the
\* delegated call, of the build and of write_entry, the entry it appended
\* to the writer, the error request() raised and the response it returned
CallRecord(p, client, build, entry, append, raised, returned) ==
  [closedAtCall |-> p.closedAtCall, call |-> p.call, start |-> p.start,
   client |-> client, build |-> build, entry |-> entry, append |-> append,
   raised |-> raised, returned |-> returned]

\* the instants the wall clock shows
Instants == {0, 1}

\* what unpacking a har.Record can yield (see UnpackRecord)
RecordIters == {"pair", "fields", "raise"}

\* line 163, requests_to_har_entry(start, request, response): the builder
\* is a function of its arguments, of the instant it reads and of the
\* Record protocol, tabulated here for the calls of the model
EntryOf ==
  [call \in Calls |-> [iter \in RecordIters |-> [t \in Instants |->
     [now \in Instants |->
        requests_to_har_entry([aware |-> TRUE, t |-> t], MakeRequest(call),
                              call.response, now, iter)]]]]

\* The results below hold the writer as request() leaves it, the record of
\* the call and `again`, the number of delegated calls made after the
\* first one.

\* a mutant of AfterWrite: a failure of write_entry is caught and dropped
AfterWriteSwallows(p, resp, b, a) ==
  [again |-> 0, har_writer |-> a.har_writer,
   rec |-> CallRecord(p, "None", "None", b.entry, a.raised, "None", resp.response)]

\* line 164 or the error of line 163: a is the result of write_entry
AfterWrite(p, resp, b, a) ==
  [again |-> 0, har_writer |-> a.har_writer,
   rec |-> CallRecord(p, "None", "None",
                      IF a.raised = "None" THEN b.entry ELSE <<>>,
                      a.raised, a.raised,
                      IF a.raised = "None" THEN resp.response ELSE <<>>)]

\* a mutant of AfterBuild: the entry is built but never written
AfterBuildSkipsWrite(w, p, resp, b, io) ==
  IF b.raised # "None"
  THEN [again |-> 0, har_writer |-> w,
        rec |-> CallRecord(p, "None", b.raised, <<>>, "skipped", b.raised, <<>>)]
  ELSE [again |-> 0, har_writer |-> w,
        rec |-> CallRecord(p, "None", "None", b.entry, "None", "None",
                           resp.response)]

\* a mutant of AfterBuild: a closed writer is skipped instead of written to
AfterBuildSkipsClosed(w, p, resp, b, io) ==
  IF b.raised # "None"
  THEN [again |-> 0, har_writer |-> w,
        rec |-> CallRecord(p, "None", b.raised, <<>>, "skipped", b.raised, <<>>)]
  ELSE IF w.closed
  THEN [again |-> 0, har_writer |-> w,
        rec |-> CallRecord(p, "None", "None", b.entry, "skipped", "None",
                           resp.response)]
  ELSE AfterWrite(p, resp, b, write_entry(w, b.entry[1], io))

\* line 163: b is the result of requests_to_har_entry
AfterBuild(w, p, resp, b, io) ==
  IF b.raised # "None"
  THEN [again |-> 0, har_writer |-> w,
        rec |-> CallRecord(p, "None", b.raised, <<>>, "skipped", b.raised, <<>>)]
  ELSE AfterWrite(p, resp, b, write_entry(w, b.entry[1], io))

\* a mutant of AfterClient: a failed delegated call is tried a second time
AfterClientRetries(w, p, resp, now, io, iter) ==
  IF resp.raised # "None"
  THEN [again |-> 1, har_writer |-> w,
        rec |-> CallRecord(p, resp.raised, "skipped", <<>>, "skipped",
                           resp.raised, <<>>)]
  ELSE AfterBuild(w, p, resp, EntryOf[p.call][iter][p.start.t][now], io)

\* lines 145-164 from the moment the delegated call ends with resp, on the
\* writer w as it is then; now is the clock read by the builder
AfterClient(w, p, resp, now, io, iter) ==
  IF resp.raised # "None"
  THEN [again |-> 0, har_writer |-> w,
        rec |-> CallRecord(p, resp.raised, "skipped", <<>>, "skipped",
                           resp.raised, <<>>)]
  ELSE AfterBuild(w, p, resp, EntryOf[p.call][iter][p.start.t][now], io)

\* a mutant of TestClient_exit: the writer is closed only on a clean exit
ExitClosesUnlessError(w, path, io) ==
  IF path = "error"
  THEN [har_writer |-> w, closes |-> 0, raised |-> "None", superExit |-> TRUE]
  ELSE [har_writer |-> close(w, io).har_writer, closes |-> 1,
        raised |-> close(w, io).raised,
        superExit |-> close(w, io).raised = "None"]

\* TestClient.__exit__, lines 166-168: the writer is closed (closes: the
\* number of close() invocations), then the inherited __exit__ is called
\* (superExit) unless close() raised; raised is the error __exit__ ends with
TestClient_exit(w, path, io) ==
  [har_writer |-> close(w, io).har_writer, closes |-> 1,
   raised |-> close(w, io).raised,
   superExit |-> close(w, io).raised = "None"]

(***************************************************************************)
(* The state machine of one TestClient, used by any number of threads:     *)
(* request() is not atomic, its delegated call (line 145) blocks while     *)
(* other calls and __exit__ go on.  The wall clock of                      *)
(* datetime.now(timezone.utc) is an input of the steps that read it: it    *)
(* can show any instant, an earlier one than before when it was set back.  *)
(***************************************************************************)
NoArgs == [start |-> [aware |-> TRUE, t |-> 0], request |-> DefaultRequest,
           response |-> JsonResponse, now |-> 0]

\* TestClient.__init__, lines 102-110: the writer is open and empty
Init ==
  /\ har_writer = [closed |-> FALSE, entries |-> <<>>]
  /\ exitCalls = 0
  /\ exiting = 0
  /\ closeCalls = 0
  /\ clientCalls = 0
  /\ pending = <<>>
  /\ overlapped = FALSE
  /\ history = <<>>
  /\ recordIter \in RecordIters
  /\ args = NoArgs
  /\ built = <<>>

\* client.request(...) up to line 145: the Request is built, the clock is
\* read (now) and the delegated call is made
request(call, now) ==
  /\ Len(history) + Len(pending) < MaxCalls
  /\ pending' = Append(pending, BeginRequest(har_writer, now, call))
  /\ overlapped' = (overlapped \/ Len(pending) > 0)
  /\ clientCalls' = clientCalls + 1
  /\ UNCHANGED <<har_writer, exitCalls, exiting, closeCalls, history,
                 recordIter, args, built>>

\* the sequence s without its i-th element
Without(s, i) == SubSeq(s, 1, i - 1) \o SubSeq(s, i + 1, Len(s))

\* request() ends for the i-th call in flight, lines 145-164: resp is the
\* outcome of its delegated call, now the instant the builder reads, io
\* the sink's I/O
request_end(i, resp, io, now) ==
  /\ i \in 1..Len(pending)
  /\ \E r \in {AfterClient(har_writer, pending[i], resp, now, io, recordIter)} :
        /\ har_writer' = r.har_writer
        /\ clientCalls' = clientCalls + r.again
        /\ history' = Append(history, r.rec)
  /\ pending' = Without(pending, i)
  /\ UNCHANGED <<exitCalls, exiting, closeCalls, overlapped, recordIter, args,
                 built>>

\* the delegated call of the i-th call in flight raises, and request()
\* with it
request_raise(i) ==
  /\ i \in 1..Len(pending)
  /\ request_end(i, super_request(pending[i].call, "raise"), "ok", 0)

\* the delegated call of the i-th call in flight returns its response:
\* line 163 builds and writes the entry, line 164 returns
request_return(i, io, now) ==
  /\ i \in 1..Len(pending)
  /\ request_end(i, super_request(pending[i].call, "ok"), io, now)

\* __exit__ is called and runs line 167: the with-block ends ("normal"),
\* returns ("return") or an error propagates out of it ("error"), or the
\* method is called directly; nothing in it asks whether the block was
\* entered or whether it was left before.  When close() raises __exit__
\* ends there, otherwise it goes on into the inherited __exit__.
__exit__(path, io) ==
  /\ exitCalls < MaxExits
  /\ exitCalls' = exitCalls + 1
  /\ \E x \in {TestClient_exit(har_writer, path, io)} :
        /\ har_writer' = x.har_writer
        /\ closeCalls' = closeCalls + x.closes
        /\ exiting' = exiting + (IF x.superExit THEN 1 ELSE 0)
  /\ UNCHANGED <<clientCalls, pending, overlapped, history, recordIter, args,
                 built>>

\* line 168: the inherited __exit__, which waits for the application to
\* shut down, returns, and __exit__ with it
exit_return ==
  /\ exiting > 0
  /\ exiting' = exiting - 1
  /\ UNCHANGED <<har_writer, exitCalls, closeCalls, clientCalls, pending,
                 overlapped, history, recordIter, args, built>>

ExitPaths == {"normal", "return", "error"}
IoResults == {"ok", "WriteError"}
CloseResults == {"ok", "WriteError", "WriteErrorOpen"}

Next ==
  \/ \E call \in Calls, now \in Instants : request(call, now)
  \/ \E i \in 1..MaxCalls : request_raise(i)
  \/ \E i \in 1..MaxCalls, io \in IoResults, now \in Instants :
       request_return(i, io, now)
  \/ \E path \in ExitPaths, io \in CloseResults : __exit__(path, io)
  \/ exit_return

Spec == Init /\ [][Next]_vars

(***************************************************************************)
(* requests_to_har_entry called directly, on each input of BuildInputs.    *)
(***************************************************************************)
BuildInit ==
  /\ har_writer = [closed |-> FALSE, entries |-> <<>>]
  /\ exitCalls = 0
  /\ exiting = 0
  /\ closeCalls = 0
  /\ clientCalls = 0
  /\ pending = <<>>
  /\ overlapped = FALSE
  /\ history = <<>>
  /\ recordIter \in RecordIters
  /\ args \in BuildInputs
  /\ built = <<>>

Build ==
  /\ built = <<>>
  /\ built' = <<requests_to_har_entry(args.start, args.request, args.response,
                                      args.now, recordIter)>>
  /\ UNCHANGED <<har_writer, exitCalls, exiting, closeCalls, clientCalls, pending,
                 overlapped, history, recordIter, args>>

BuildNext == Build

BuildSpec == BuildInit /\ [][BuildNext]_vars

(***************************************************************************)
(* Properties.                                                             *)
(***************************************************************************)
Last(h) == h[Len(h)]
\* this step is a call of request() reaching its delegated call
Began == Len(pending') = Len(pending) + 1
\* this step is a request() call ending; its record is Last(history')
Ended == Len(history') = Len(history) + 1
Succeeded(r) == r.raised = "None"
\* the calls that returned their response, in the order they ended
Recorded == SelectSeq(history, Succeeded)
\* the calls made so far were sequential: each began after the calls
\* begun before it had ended, and none is in flight; history is then in
\* call order
Sequential == Len(pending) = 0 /\ ~overlapped
NonDecreasing(es) ==
  \A i, j \in 1..Len(es) :
    i <= j => es[i].startedDateTime.t <= es[j].startedDateTime.t

\* C1 as stated: after N sequential request() calls on an open instance
\* whose delegated calls all succeeded, the writer holds N entries, the
\* i-th is the one of the i-th call, startedDateTime is non-decreasing.
\* Stated for calls whose entry could be built, so that a violation does
\* not rest on a failure of the builder (C7, C8).
C1_Original ==
  (/\ Sequential
   /\ ~har_writer.closed
   /\ \A i \in 1..Len(history) :
        history[i].client = "None" /\ history[i].build = "None")
  => /\ Len(har_writer.entries) = Len(history)
     /\ \A i \in 1..Len(history) : <<har_writer.entries[i]>> = history[i].entry
     /\ NonDecreasing(har_writer.entries)

\* the wall clock showed an earlier instant to a call than to a call
\* before it
ClockSetBack ==
  \E i, j \in 1..Len(history) :
    i < j /\ history[j].start.t < history[i].start.t

\* C1 amended: after sequential request() calls the writer holds exactly
\* the entries of the calls whose delegated call, entry build and
\* write_entry all succeeded, in call order (N entries when all N calls
\* did); each entry's startedDateTime is the instant read when its call
\* began, so it is non-decreasing along them unless the wall clock was set
\* back between two calls.
C1_Amended ==
  Sequential
  => /\ har_writer.entries = [i \in 1..Len(Recorded) |-> Recorded[i].entry[1]]
     /\ (\A i \in 1..Len(history) : Succeeded(history[i]))
          => Len(har_writer.entries) = Len(history)
     /\ \A i \in 1..Len(Recorded) :
          har_writer.entries[i].startedDateTime = Recorded[i].start
     /\ ~ClockSetBack => NonDecreasing(har_writer.entries)

C1_Witness ==
  /\ Sequential
  /\ ~ClockSetBack
  /\ Len(history) >= 2
  /\ Succeeded(history[1]) /\ Succeeded(history[2])
  /\ history[1].call # history[2].call
  /\ history[1].start.t < history[2].start.t
  /\ Len(har_writer.entries) >= 2

\* C2: every __exit__ call has invoked har_writer.close(), on whichever
\* path the with-block was left (it ended, returned, or an error, also a
\* failed request(), propagated out of it): close() is invoked before the
\* inherited __exit__ is entered, so it has been invoked once the block is
\* left.
C2_CloseOnEveryExit ==
  /\ closeCalls = exitCalls
  /\ exiting <= closeCalls

\* a request() failed on the open writer, __exit__ has been called since
\* and has ended
C2_Witness ==
  /\ exitCalls = 1
  /\ closeCalls = 1
  /\ exiting = 0
  /\ Len(history) > 0 /\ ~Succeeded(Last(history))
  /\ ~Last(history).closedAtCall
  /\ Len(pending) = 0

\* C3 as stated: every request() invoked after the writer was closed fails
\* with SinkClosed and appends no entry.  Stated for calls whose entry
\* build does not raise, so that a violation does not rest on a failure of
\* the builder (C7, C8).
C3_Original ==
  [][(Ended /\ Last(history').closedAtCall
      /\ Last(history').build \in {"None", "skipped"})
       => /\ Last(history').raised = "SinkClosed"
          /\ har_writer'.entries = har_writer.entries]_vars

\* C3 amended: every request() invoked after the writer was closed fails
\* and leaves the writer as it was; the delegated call is still made
\* first, so the failure is that call's error if it raises, the builder's
\* error if the build raises, and SinkClosed otherwise.
C3_Amended ==
  [][/\ (Began /\ har_writer.closed) => clientCalls' = clientCalls + 1
     /\ (Ended /\ Last(history').closedAtCall)
          => /\ ~Succeeded(Last(history'))
             /\ Last(history').returned = <<>>
             /\ har_writer' = har_writer
             /\ har_writer.closed
             /\ Last(history').raised =
                  (IF Last(history').client # "None" THEN Last(history').client
                   ELSE IF Last(history').build # "None" THEN Last(history').build
                   ELSE "SinkClosed")]_vars

C3_Witness ==
  /\ har_writer.closed
  /\ Len(history) > 0
  /\ Last(history).closedAtCall
  /\ Last(history).raised = "SinkClosed"
  /\ Last(history).client = "None"
  /\ Last(history).build = "None"

\* C4: when write_entry fails with WriteError during request(), request()
\* raises that error and the entries written before stay as they were.
C4_WriteErrorSurfaces ==
  [][(Ended /\ Last(history').append = "WriteError")
       => /\ Last(history').raised = "WriteError"
          /\ Last(history').returned = <<>>
          /\ har_writer'.entries = har_writer.entries]_vars

C4_Witness ==
  /\ Len(history) >= 2
  /\ Last(history).append = "WriteError"
  /\ Len(har_writer.entries) >= 1

\* C5: requests_to_har_entry with a start that has no tzinfo raises
\* ValueError before request.prepare() and builds no entry, whatever the
\* request and the response.
C5_NaiveStartRejected ==
  (Len(built) = 1 /\ ~args.start.aware)
  => /\ built[1].raised = "ValueError"
     /\ built[1].prepared = <<>>
     /\ built[1].entry = <<>>

C5_Witness ==
  /\ Len(built) = 1
  /\ ~args.start.aware
  /\ args.request.dataKind = "bytes"
  /\ Len(args.request.data) > 0
  /\ Len(args.request.headers) > 0
  /\ built[1].raised = "ValueError"

\* an entry was built by the direct call
Built == Len(built) = 1 /\ Len(built[1].entry) = 1
BuiltEntry == built[1].entry[1]
\* what request.prepare() gave in the direct call
Prepared == built[1].prepared[1]
PairRecords(pairs) == [i \in 1..Len(pairs) |-> Record(pairs[i][1], pairs[i][2])]
\* the (key, value) pairs of the query of the request's url, in url order
QueryPairs == parse_qsl(urlsplit(args.request.url).query)
NoQueryNoFragment(url) == \A i \in 1..Len(url) : url[i] \notin {63, 35}

RECURSIVE KeysInOrder(_, _)
\* the distinct keys of pairs in the order of their first occurrence
KeysInOrder(pairs, seen) ==
  IF Len(pairs) = 0 THEN <<>>
  ELSE IF Head(pairs)[1] \in seen THEN KeysInOrder(Tail(pairs), seen)
  ELSE <<Head(pairs)[1]>> \o KeysInOrder(Tail(pairs), seen \cup {Head(pairs)[1]})

RECURSIVE PairsOfKeys(_, _)
PairsOfKeys(keys, pairs) ==
  IF Len(keys) = 0 THEN <<>>
  ELSE SelectSeq(pairs, LAMBDA p : p[1] = Head(keys)) \o PairsOfKeys(Tail(keys), pairs)

\* pairs grouped by key: keys by first occurrence, a key's values in order
GroupedByKey(pairs) == PairsOfKeys(KeysInOrder(pairs, {}), pairs)

\* C6 as stated: queryString is the sequence of the url's (key, value)
\* pairs in url order, one Record per occurrence, and request.url has no
\* '?' and no '#'.
C6_Original ==
  Built => /\ BuiltEntry.request.queryString = PairRecords(QueryPairs)
           /\ NoQueryNoFragment(BuiltEntry.request.url)

\* C6 amended: queryString holds one Record per key=value occurrence with
\* a non-empty value, grouped by key (keys in the order of their first
\* occurrence, each key's values in url order), and request.url has no '?'
\* and no '#'.
C6_Amended ==
  Built => /\ BuiltEntry.request.queryString = PairRecords(GroupedByKey(QueryPairs))
           /\ NoQueryNoFragment(BuiltEntry.request.url)

\* ?a=1&b=3&a=2 and the like: three pairs whose url order is not grouped
C6_Witness ==
  /\ Built
  /\ Len(QueryPairs) = 3
  /\ QueryPairs[1][1] = QueryPairs[3][1]
  /\ QueryPairs[1][1] # QueryPairs[2][1]
  /\ Len(urlsplit(args.request.url).fragment) > 0

\* C7 as stated: without a body postData is absent and bodySize is 0; with
\* a body of N bytes bodySize = N and postData.text is the body's text
\* (encoding it gives the body back).  Stated for bytes bodies that come
\* with a Content-Type and for a Record that unpacks to (name, value).
C7_Original ==
  (Len(built) = 1 /\ args.start.aware /\ recordIter = "pair")
  => /\ Prepared.bodyKind = "none"
          => /\ Built
             /\ BuiltEntry.request.postData = <<>>
             /\ BuiltEntry.request.bodySize = 0
     /\ (Prepared.bodyKind = "bytes"
         /\ HasHeader(Prepared.headers, ContentTypeKey))
          => /\ Built
             /\ BuiltEntry.request.bodySize = Len(Prepared.body)
             /\ Len(BuiltEntry.request.postData) = 1
             /\ encode_utf8(BuiltEntry.request.postData[1].text) = Prepared.body

\* the UTF-8 byte length of the "key: value" lines of the header Records
\* joined by '\n'
HeaderBlockSize(records) ==
  Len(encode_utf8(Join([i \in 1..Len(records) |->
                          records[i].name \o <<58, 32>> \o records[i].value],
                       <<10>>)))

\* C8 as stated: request.headersSize and response.headersSize are the
\* UTF-8 byte length of the entry's header Records rendered as
\* "key: value" lines joined by line breaks, 0 without headers.
C8_Original ==
  Built => /\ BuiltEntry.request.headersSize
                = HeaderBlockSize(BuiltEntry.request.headers)
           /\ BuiltEntry.response.headersSize
                = HeaderBlockSize(BuiltEntry.response.headers)

\* the entries of the calls request("GET", "/items?x=1") that returned
ItemsEntries ==
  {history[i].entry[1] :
     i \in {j \in 1..Len(history) :
              history[j].call = ItemsCall /\ Succeeded(history[j])}}
EndsWith(text, suffix) ==
  /\ Len(text) >= Len(suffix)
  /\ SubSeq(text, Len(text) - Len(suffix) + 1, Len(text)) = suffix
\* what C9 says of the entry except for content.size
ItemsEntryOk(e) ==
  /\ \E k \in 1..Len(har_writer.entries) : har_writer.entries[k] = e
  /\ e.request.method = Get
  /\ EndsWith(e.request.url, <<47, 105, 116, 101, 109, 115>>)
  /\ NoQueryNoFragment(e.request.url)
  /\ e.request.queryString = <<Record(<<120>>, <<49>>)>>
  /\ e.response.status = 200
  /\ e.response.content.text = OkJson

\* C9 as stated: the scenario's entry, with response.content.size = 12.
C9_Original ==
  \A e \in ItemsEntries : ItemsEntryOk(e) /\ e.response.content.size = 12

\* C9 amended: the same entry with response.content.size = 11, the length
\* of {"ok":true}.
C9_Amended ==
  \A e \in ItemsEntries : ItemsEntryOk(e) /\ e.response.content.size = 11

C9_Witness == ItemsEntries # {} /\ Len(history) = 1

\* C10: every request() makes exactly one delegated call, whatever fails
\* afterwards; an entry is written only by a call whose delegated call
\* returned; when that call raises the writer is left as it was.
C10_OneClientCall ==
  [][/\ Began => clientCalls' = clientCalls + 1
     /\ Ended
          => /\ clientCalls' = clientCalls
             /\ Last(history').client # "None" => har_writer' = har_writer
             /\ har_writer'.closed = har_writer.closed
     /\ har_writer'.entries # har_writer.entries
          => /\ Ended
             /\ Last(history').client = "None"
             /\ Len(Last(history').returned) = 1]_vars

C10_Witness ==
  /\ Len(history) >= 2
  /\ history[1].client = "ClientError"
  /\ Last(history).append = "WriteError"
  /\ clientCalls = Len(history)
  /\ ~har_writer.closed

====
